---- MODULE Spec2Model ----
(***************************************************************************)
(* Village of warriors: an agent-based simulation written on top of the    *)
(* mesa library (src/ABMexample.ipynb, repeated verbatim in                *)
(* src/class17.ipynb).                                                     *)
(*                                                                         *)
(*   Village.__init__(n)  creates Warrior(0) .. Warrior(n-1) and adds them *)
(*                        to a RandomActivation schedule.                  *)
(*   Village.step()       calls schedule.step(): the agent keys are        *)
(*                        shuffled and Warrior.step() runs once per key.   *)
(*   Warrior.step()       hunt phase (one uniform draw, compared >= .8),   *)
(*                        then wrestle phase (one uniform draw, compared   *)
(*                        > .85, then a pick of an opponent among all      *)
(*                        agents of the schedule).                         *)
(*                                                                         *)
(* Uniform draws are modelled in hundredths: the draw 0.8 is 80.  xp only  *)
(* ever holds integral values (1, then +2., -2., +1.), so it is an integer *)
(* here.                                                                   *)
(*                                                                         *)
(* src/class17.ipynb also holds the sampling routine MCMC(K), modelled in  *)
(* the variable mcmc and run on its own under MCMCSpec.                    *)
(***************************************************************************)
EXTENDS Integers, Sequences, FiniteSets

\* ------------------------------------------------------------------ bounds
\* Largest population size explored.
MaxN == 2
\* Largest number of Village.step() calls the caller's run loop makes.
MaxTicks == 2
\* Largest number of Warrior.step() calls in one run: the run loop of a
\* population of n makes t calls of Village.step() only while t * n stays
\* within this budget.
MaxActivations == 4
\* Largest number of iterations K handed to MCMC(K).
MaxK == 3

\* ------------------------------------------------------- program constants
\* np.random.randint(1, 10): low is inclusive, high is exclusive.
StrengthLow == 1
StrengthHigh == 10
\* self.xp = 1
InitialXp == 1
\* np.random.uniform(0, 1) >= .8, in hundredths
HuntThreshold == 80
\* np.random.uniform(0, 1) > .85, in hundredths
WrestleThreshold == 85
\* self.xp += 2. ; self.strength += 3
HuntXpGain == 2
HuntStrengthGain == 3
\* loser: xp -= 2. ; winner: xp += 1.
WrestleLoss == 2
WrestleGain == 1

\* --------------------------------------------------------- random outcomes
\* Outcomes of np.random.uniform(0, 1), in hundredths: both thresholds, the
\* value just below the hunt threshold and the value just above the wrestle
\* threshold.
Rolls == {79, 80, 85, 86}

\* Population sizes handed to Village(n).  range(n) is empty for n <= 0.
Sizes == (-1)..MaxN

VARIABLES
    num_agents,       \* Village.num_agents
    agents,           \* schedule.agents: the Warriors in insertion order
    steps,            \* schedule.steps: completed ticks
    pc,               \* "idle" | "hunt" | "wrestle" | "end"
    agent_keys,       \* schedule.step: the shuffled key list of this tick
    idx,              \* schedule.step: position of the loop in agent_keys
    roll,             \* the last np.random.uniform outcome (-1: none yet)
    is_hunt_success,  \* Warrior.step local
    do_wrestle,       \* Warrior.step local
    other,            \* Warrior.step local: position of the opponent (0: none)
    branch,           \* Warrior.step: "none" | "self_loses" | "self_wins"
    before,           \* agents as they were when the running activation began
    tick_start,       \* agents as they were when the running tick began
    calls,            \* random-number calls of the running activation, in order
    mcmc,             \* the call MCMC(K) of src/class17.ipynb: its locals
    ledger,           \* the run so far: each agent's initial strength,
                      \* Warrior.step calls and successful hunts, and the
                      \* wrestles that took place
    activated         \* per key: Warrior.step calls in the running tick

vars == <<num_agents, agents, steps, pc, agent_keys, idx, roll,
          is_hunt_success, do_wrestle, other, branch, before, tick_start,
          calls, mcmc, ledger, activated>>

\* ------------------------------------------------------------------ helpers
\* range(n)
Range(n) == 0..(n - 1)

\* randint read as if its upper end were inclusive.
RandIntInclusive(low, high) == low..high

\* np.random.randint(low, high): every integer in [low, high)
RandInt(low, high) == low..(high - 1)

\* Warrior.__init__(key, model) with the strength that randint returned
Warrior(key, s) == [unique_id |-> key, xp |-> InitialXp, strength |-> s]

\* A construction loop whose keys start at 1 instead of 0.
VillageKeysFromOne(n, strengths) ==
    [i \in 1..Cardinality(Range(n)) |->
        [unique_id |-> i, xp |-> InitialXp, strength |-> strengths[i]]]

\* Village.__init__: one Warrior per i in range(n), added in that order
Village(n, strengths) ==
    [i \in 1..Cardinality(Range(n)) |-> Warrior(i - 1, strengths[i])]

\* schedule._agents[agent_key]: the position of the agent with that key
AgentOf(key) == CHOOSE i \in DOMAIN agents : agents[i].unique_id = key

\* A variant that leaves the agent added last out of the key list.
KeysAllButLast == [i \in 1..(Len(agents) - 1) |-> agents[i].unique_id]

\* list(self._agents.keys())
Keys == [i \in DOMAIN agents |-> agents[i].unique_id]

\* A shuffle that draws every position independently (with replacement).
ShuffleWithReplacement(keys) == [DOMAIN keys -> {keys[i] : i \in DOMAIN keys}]

\* A variant that always activates the agents in creation order.
ShuffleCreationOrder(keys) == {keys}

\* random.shuffle(agent_keys): every permutation of the list
Shuffle(keys) ==
    {p \in [DOMAIN keys -> {keys[i] : i \in DOMAIN keys}] :
        \A i, j \in DOMAIN keys : p[i] = p[j] => i = j}

\* The hunt comparison written with > instead of >=.
HuntSuccessStrict(u) == u > HuntThreshold

\* np.random.uniform(0, 1) >= .8
HuntSuccess(u) == u >= HuntThreshold

\* A variant that also wrestles on a roll of exactly 0.85.
WrestleHappensInclusive(v) == v >= WrestleThreshold

\* np.random.uniform(0, 1) > .85
WrestleHappens(v) == v > WrestleThreshold

\* A hunt gain that forgets the strength.
HuntUpdateXpOnly(ags, a) ==
    [ags EXCEPT ![a] = [@ EXCEPT !.xp = @ + HuntXpGain]]

\* A variant that applies the xp gain of the hunt twice.
HuntUpdateDoubleGain(ags, a) ==
    [ags EXCEPT ![a] = [@ EXCEPT !.xp = @ + HuntXpGain + HuntXpGain,
                                 !.strength = @ + HuntStrengthGain]]

\* self.xp += 2. ; self.strength += 3
HuntUpdate(ags, a) ==
    [ags EXCEPT ![a] = [@ EXCEPT !.xp = @ + HuntXpGain,
                                 !.strength = @ + HuntStrengthGain]]

\* The strength comparison written with <= instead of <.
SelfLosesOnTie(sa, sb) == sa <= sb

\* A variant in which the stronger acting agent is the one that loses.
SelfLosesReversed(sa, sb) == sa > sb

\* if self.strength < other.strength
SelfLoses(sa, sb) == sa < sb

\* The losing branch taking the loss from the loser's strength, not its xp.
LoseUpdateDrainsStrength(ags, a, b) ==
    LET first == [ags EXCEPT ![a] = [@ EXCEPT !.strength = @ - WrestleLoss]]
    IN  [first EXCEPT ![b] = [@ EXCEPT !.xp = @ + WrestleGain]]

\* The losing branch with its two assignments given to the wrong agents.
LoseUpdateSwapped(ags, a, b) ==
    LET first == [ags EXCEPT ![b] = [@ EXCEPT !.xp = @ - WrestleLoss]]
    IN  [first EXCEPT ![a] = [@ EXCEPT !.xp = @ + WrestleGain]]

\* A variant that does not let the loser's xp fall below 0.
LoseUpdateFloored(ags, a, b) ==
    LET lowered == IF ags[a].xp - WrestleLoss < 0 THEN 0
                   ELSE ags[a].xp - WrestleLoss
        first == [ags EXCEPT ![a] = [@ EXCEPT !.xp = lowered]]
    IN  [first EXCEPT ![b] = [@ EXCEPT !.xp = @ + WrestleGain]]

\* A variant in which the winner gains what the loser loses.
LoseUpdateZeroSum(ags, a, b) ==
    LET first == [ags EXCEPT ![a] = [@ EXCEPT !.xp = @ - WrestleLoss]]
    IN  [first EXCEPT ![b] = [@ EXCEPT !.xp = @ + WrestleLoss]]

\* A variant in which winning a wrestle also raises the winner's strength.
LoseUpdateWinnerGainsStrength(ags, a, b) ==
    LET first == [ags EXCEPT ![a] = [@ EXCEPT !.xp = @ - WrestleLoss]]
    IN  [first EXCEPT ![b] = [@ EXCEPT !.xp = @ + WrestleGain,
                                       !.strength = @ + 1]]

\* self.xp -= 2. ; other.xp += 1.   (two assignments, in this order)
LoseUpdate(ags, a, b) ==
    LET first == [ags EXCEPT ![a] = [@ EXCEPT !.xp = @ - WrestleLoss]]
    IN  [first EXCEPT ![b] = [@ EXCEPT !.xp = @ + WrestleGain]]

\* The winning branch rewarding the winner and also raising the opponent's
\* strength.
WinUpdateTouchesOpponentStrength(ags, a, b) ==
    LET first == [ags EXCEPT ![b] = [@ EXCEPT !.xp = @ - WrestleLoss,
                                              !.strength = @ + WrestleGain]]
    IN  [first EXCEPT ![a] = [@ EXCEPT !.xp = @ + WrestleGain]]

\* The winning branch computed from values read before either assignment:
\* when both names denote one agent the second write overwrites the first.
WinUpdateLostWrite(ags, a, b) ==
    [k \in DOMAIN ags |->
        IF k = a THEN [ags[k] EXCEPT !.xp = ags[k].xp + WrestleGain]
        ELSE IF k = b THEN [ags[k] EXCEPT !.xp = ags[k].xp - WrestleLoss]
        ELSE ags[k]]

\* A variant of the else branch in which the acting agent is the loser.
WinUpdateSwapped(ags, a, b) ==
    LET first == [ags EXCEPT ![a] = [@ EXCEPT !.xp = @ - WrestleLoss]]
    IN  [first EXCEPT ![b] = [@ EXCEPT !.xp = @ + WrestleGain]]

\* other.xp -= 2. ; self.xp += 1.   (two assignments, in this order)
WinUpdate(ags, a, b) ==
    LET first == [ags EXCEPT ![b] = [@ EXCEPT !.xp = @ - WrestleLoss]]
    IN  [first EXCEPT ![a] = [@ EXCEPT !.xp = @ + WrestleGain]]

\* A variant that compares the strengths the agents had when the tick began.
WrestleBranchSnapshot(ags, a, b) ==
    IF SelfLoses(tick_start[a].strength, tick_start[b].strength)
    THEN "self_loses"
    ELSE "self_wins"

\* A variant that compares the strength the acting agent had before its hunt.
WrestleBranchBeforeHunt(ags, a, b) ==
    IF SelfLoses(before[a].strength, ags[b].strength)
    THEN "self_loses"
    ELSE "self_wins"

\* the branch the comparison selects
WrestleBranch(ags, a, b) ==
    IF SelfLoses(ags[a].strength, ags[b].strength)
    THEN "self_loses"
    ELSE "self_wins"

\* the comparison and the assignments of the branch it selects
WrestleUpdate(ags, a, b) ==
    IF WrestleBranch(ags, a, b) = "self_loses"
    THEN LoseUpdate(ags, a, b)
    ELSE WinUpdate(ags, a, b)

\* A variant that picks the opponent before testing do_wrestle.
WrestleDrawsEagerPick(v) == <<"uniform", "choice">>

\* The random-number calls of the wrestle phase: the uniform draw, and the
\* np.random.choice only inside "if do_wrestle".
WrestleDraws(v) ==
    IF WrestleHappens(v) THEN <<"uniform", "choice">> ELSE <<"uniform">>

\* A variant in which the shuffle reorders the agents themselves.
ScheduleAgentsInPlace(ags, p) ==
    [i \in DOMAIN ags |->
        ags[CHOOSE j \in DOMAIN ags : ags[j].unique_id = p[i]]]

\* schedule.agents after schedule.step has shuffled the keys.  The scheduler
\* is mesa's RandomActivation, which the repository imports and does not
\* contain, and what the shuffle does to the enumeration differs between
\* mesa releases.  This follows the specification's Population contract
\* (sections 3 and 4.2, and the read-out interface of section 6): an ordered
\* sequence whose insertion order is the creation order and whose
\* enumeration order is stable.
ScheduleAgents(ags, p) == ags

\* A variant that runs the loop body once before testing the list.
LoopEntryDoWhile(keys) == "hunt"

\* for agent_key in agent_keys: an empty list skips the loop body.
LoopEntry(keys) == IF Len(keys) = 0 THEN "end" ELSE "hunt"

\* The number of model.step() calls the run loop makes for this population:
\* the largest t <= MaxTicks whose t * n activations fit the budget.
RunTicks ==
    CHOOSE t \in 0..MaxTicks :
        /\ t * Len(agents) <= MaxActivations
        /\ \A t2 \in 0..MaxTicks :
              t2 * Len(agents) <= MaxActivations => t2 <= t

\* list(map(lambda x: (x.xp, x.strength), model.schedule.agents))
ReadOut == [i \in DOMAIN agents |-> <<agents[i].xp, agents[i].strength>>]

\* A variant in which an agent cannot pick itself.
OpponentsExcludingSelf(ags, a) == DOMAIN ags \ {a}

\* np.random.choice(self.model.schedule.agents): any agent of the schedule,
\* the acting agent included.
Opponents(ags, a) == DOMAIN ags

\* The position in agents of the agent whose Warrior.step is running.
Acting == AgentOf(agent_keys[idx])

\* -------------------------------------------------------------------- MCMC
\* The sampling routine of src/class17.ipynb.  Values of X and X_hat are in
\* hundredths, as the uniform draws are.

\* Outcomes of np.random.uniform(0, 1, 1) added to X, in hundredths.
Deltas == {0, 50, 90}

\* Outcomes of np.random.uniform(0, 1, 1) drawn for u, in hundredths.
Us == {0, 50, 90}

\* The values of K the routine is called with.
Ks == 0..MaxK

\* np.arange(low, high, step) for a positive step.
Arange(low, high, step) ==
    [j \in 1..((high - low + step - 1) \div step) |-> low + (j - 1) * step]

\* X = np.arange(-10, 30, 5)
Grid == Arange(-10, 30, 5)

\* f(X_hat)/f(X) at grid point j for X_hat = X + d, in thousandths rounded
\* up, with f(x) = (1/b) exp(-(z + exp(-z))), z = (x - mue)/b, b = 2,
\* mue = 0.2.  Ratios above 100 are entered as 100000.  For u a multiple of
\* 0.001 the ratio exceeds u exactly when the entry exceeds 1000 u.
RatioMilli(j, d) ==
    CASE d = 0 -> <<1000, 1000, 1000, 1000, 1000, 1000, 1000, 1000>>[j]
      [] d = 50 -> <<100000, 15305, 995, 795, 781, 779, 779, 779>>[j]
      [] d = 90 -> <<100000, 83838, 952, 659, 640, 638, 638, 638>>[j]

\* (f(X_hat)/f(X)) > u, element by element.
AcceptanceTest(d, u) == [j \in DOMAIN Grid |-> RatioMilli(j, d) > 10 * u]

\* What numpy's all() would return for the test array.
All(test) == \A j \in DOMAIN test : test[j]

\* The condition of the if: (...).all, the bound method itself, which is
\* never called; a method object is true.
AllAttribute(test) == TRUE

\* A variant in which the assignment i = i + 1 in the body drives the loop.
NextPosFromI(pos, i) == i + 1

\* for i in range(K): the next value comes from the range, whatever the
\* body assigned to i.
NextPos(pos, i) == pos + 1

\* No call of MCMC is running.
MCMCNotCalled ==
    [pc |-> "none", K |-> 0, pos |-> 0, i |-> 0, sample_num |-> 0,
     X_valSample |-> <<>>, X_hat |-> <<>>, u |-> -1, test |-> <<>>,
     appended |-> FALSE]

\* MCMC(K) has run the two assignments before its loop.
MCMCCalled(K) ==
    [pc |-> "loop", K |-> K, pos |-> 0, i |-> 0, sample_num |-> 0,
     X_valSample |-> <<>>, X_hat |-> <<>>, u |-> -1, test |-> <<>>,
     appended |-> FALSE]

\* One pass through the loop body with the draws d and u.
MCMCBody(m, d, u) ==
    LET X_hat == [j \in DOMAIN Grid |-> 100 * Grid[j] + d]
        test == AcceptanceTest(d, u)
        taken == AllAttribute(test)
        i_after == IF taken THEN m.pos + 1 ELSE m.pos
    IN  [m EXCEPT !.X_hat = X_hat,
                  !.u = u,
                  !.test = test,
                  !.appended = taken,
                  !.X_valSample = IF taken THEN Append(@, X_hat) ELSE @,
                  !.i = i_after,
                  !.pos = NextPos(m.pos, i_after)]

\* -------------------------------------------------------------------- Init
\* The village after model = Village(n).
VillageInit ==
    /\ num_agents \in Sizes
    /\ \E strengths \in [1..Cardinality(Range(num_agents)) ->
                            RandInt(StrengthLow, StrengthHigh)] :
           agents = Village(num_agents, strengths)
    /\ steps = 0
    /\ pc = "idle"
    /\ agent_keys = <<>>
    /\ idx = 0
    /\ roll = -1
    /\ is_hunt_success = FALSE
    /\ do_wrestle = FALSE
    /\ other = 0
    /\ branch = "none"
    /\ before = <<>>
    /\ tick_start = <<>>
    /\ calls = <<>>
    /\ ledger = [initial |-> [i \in DOMAIN agents |-> agents[i].strength],
                 activations |-> [i \in DOMAIN agents |-> 0],
                 hunts |-> [i \in DOMAIN agents |-> 0],
                 wrestles |-> 0]
    /\ activated = [k \in {} |-> 0]

\* The state after model = Village(n); MCMC is not called in the village run.
Init ==
    /\ VillageInit
    /\ mcmc = MCMCNotCalled

\* ----------------------------------------------------------------- actions
\* model.step() -> schedule.step(): copy the keys, shuffle them, enter the loop.
StepBegin ==
    /\ pc = "idle"
    /\ steps < RunTicks
    /\ \E p \in Shuffle(Keys) :
          /\ agent_keys' = p
          /\ agents' = ScheduleAgents(agents, p)
          /\ pc' = LoopEntry(p)
    /\ idx' = 1
    /\ activated' = [k \in {agents[i].unique_id : i \in DOMAIN agents} |-> 0]
    /\ tick_start' = agents
    /\ UNCHANGED <<num_agents, steps, roll, is_hunt_success,
                   do_wrestle, other, branch, before, calls, ledger,
                   mcmc>>

\* Warrior.step, hunt phase: one uniform draw, then the gain if it succeeded.
Hunt ==
    /\ pc = "hunt"
    /\ \E u \in Rolls :
          /\ roll' = u
          /\ is_hunt_success' = HuntSuccess(u)
          /\ agents' = IF HuntSuccess(u) THEN HuntUpdate(agents, Acting)
                                         ELSE agents
          /\ ledger' = IF HuntSuccess(u)
                       THEN [ledger EXCEPT !.activations[Acting] = @ + 1,
                                           !.hunts[Acting] = @ + 1]
                       ELSE [ledger EXCEPT !.activations[Acting] = @ + 1]
    /\ before' = agents
    /\ calls' = <<"uniform">>
    /\ activated' = [activated EXCEPT ![agent_keys[idx]] = @ + 1]
    /\ do_wrestle' = FALSE
    /\ other' = 0
    /\ branch' = "none"
    /\ pc' = "wrestle"
    /\ UNCHANGED <<num_agents, steps, agent_keys, idx, tick_start, mcmc>>

\* Warrior.step, wrestle phase, and the return to the loop of schedule.step.
Wrestle ==
    /\ pc = "wrestle"
    /\ \E v \in Rolls :
          /\ roll' = v
          /\ do_wrestle' = WrestleHappens(v)
          /\ calls' = calls \o WrestleDraws(v)
          /\ ledger' = IF WrestleHappens(v)
                       THEN [ledger EXCEPT !.wrestles = @ + 1]
                       ELSE ledger
          /\ IF WrestleHappens(v)
             THEN \E b \in Opponents(agents, Acting) :
                     /\ other' = b
                     /\ branch' = WrestleBranch(agents, Acting, b)
                     /\ agents' = WrestleUpdate(agents, Acting, b)
             ELSE /\ other' = 0
                  /\ branch' = "none"
                  /\ agents' = agents
    /\ IF idx < Len(agent_keys)
       THEN /\ idx' = idx + 1
            /\ pc' = "hunt"
       ELSE /\ idx' = idx
            /\ pc' = "end"
    /\ UNCHANGED <<num_agents, steps, agent_keys, is_hunt_success,
                   before, tick_start, activated, mcmc>>

\* A variant of the end of schedule.step that leaves the counter alone.
StepEndNoCount ==
    /\ pc = "end"
    /\ steps' = steps
    /\ pc' = "idle"
    /\ agent_keys' = <<>>
    /\ idx' = 0
    /\ roll' = -1
    /\ is_hunt_success' = FALSE
    /\ do_wrestle' = FALSE
    /\ other' = 0
    /\ branch' = "none"
    /\ before' = <<>>
    /\ tick_start' = <<>>
    /\ calls' = <<>>
    /\ activated' = [k \in {} |-> 0]
    /\ UNCHANGED <<num_agents, agents, ledger, mcmc>>

\* schedule.step after its loop: self.steps += 1, and Village.step returns.
StepEnd ==
    /\ pc = "end"
    /\ steps' = steps + 1
    /\ pc' = "idle"
    /\ agent_keys' = <<>>
    /\ idx' = 0
    /\ roll' = -1
    /\ is_hunt_success' = FALSE
    /\ do_wrestle' = FALSE
    /\ other' = 0
    /\ branch' = "none"
    /\ before' = <<>>
    /\ tick_start' = <<>>
    /\ calls' = <<>>
    /\ activated' = [k \in {} |-> 0]
    /\ UNCHANGED <<num_agents, agents, ledger, mcmc>>

Next == StepBegin \/ Hunt \/ Wrestle \/ StepEnd

Spec == Init /\ [][Next]_vars

\* The steps the run still has to take: each of the RunTicks - steps ticks
\* left is one entry into schedule.step, one hunt phase and one wrestle
\* phase for each of the n agents, and one return; the running tick has
\* taken part of them.
RemainingSteps ==
    LET n == Len(agents)
        taken == CASE pc = "idle" -> 0
                   [] pc = "hunt" -> 1 + 2 * (idx - 1)
                   [] pc = "wrestle" -> 2 + 2 * (idx - 1)
                   [] pc = "end" -> 1 + 2 * n
    IN  (RunTicks - steps) * (2 * n + 2) - taken

\* The initial strengths the runs checked for termination start from: the
\* two ends of the range np.random.randint(1, 10) draws from.
EndStrengths == {StrengthLow, StrengthHigh - 1}

\* Village(n) with every agent's strength drawn at one of the two ends.
FairInit ==
    /\ Init
    /\ \A i \in DOMAIN agents : agents[i].strength \in EndStrengths

\* The village variables, which the sampling routine does not touch.
village_vars == <<num_agents, agents, steps, pc, agent_keys, idx, roll,
                  is_hunt_success, do_wrestle, other, branch, before,
                  tick_start, calls, ledger, activated>>

\* X_valSample = MCMC(k), called on its own: the village is the empty one.
MCMCInit ==
    /\ VillageInit
    /\ num_agents = 0
    /\ mcmc \in {MCMCCalled(K) : K \in Ks}

\* One iteration of for i in range(K).
MCMCIterate ==
    /\ mcmc.pc = "loop"
    /\ mcmc.pos < mcmc.K
    /\ \E d \in Deltas, u \in Us : mcmc' = MCMCBody(mcmc, d, u)
    /\ UNCHANGED village_vars

\* The range is exhausted: return X_valSample.
MCMCReturn ==
    /\ mcmc.pc = "loop"
    /\ mcmc.pos >= mcmc.K
    /\ mcmc' = [mcmc EXCEPT !.pc = "returned"]
    /\ UNCHANGED village_vars

MCMCNext == MCMCIterate \/ MCMCReturn

MCMCSpec == MCMCInit /\ [][MCMCNext]_vars

\* The village runs that start from the end strengths, every step allowed.
EndSpec == FairInit /\ [][Next]_vars

\* The run as the interpreter executes it: a step that can be taken is taken.
FairSpec == FairInit /\ [][Next]_vars /\ WF_vars(Next)

\* ------------------------------------------------------------------ claims

\* C1: in every tick each agent's Warrior.step is invoked exactly once: while
\* the tick runs no agent has been activated more than once, and when the
\* loop of schedule.step is over every agent has been activated exactly once.
C1_ActivatedExactlyOnce ==
    /\ pc # "idle" =>
          \A i \in DOMAIN agents : activated[agents[i].unique_id] <= 1
    /\ pc = "end" =>
          \A i \in DOMAIN agents : activated[agents[i].unique_id] = 1

\* The second tick of a village of two is over, run in reverse creation order.
C1_Witness ==
    /\ pc = "end"
    /\ steps = 1
    /\ Len(agents) = 2
    /\ agent_keys = <<1, 0>>
    /\ activated[0] = 1
    /\ activated[1] = 1

\* C2: a wrestle of acting agent A against the picked opponent B applies
\* exactly one branch: if A.strength < B.strength then A.xp -= 2 and
\* B.xp += 1 (branch self_loses), otherwise B.xp -= 2 and A.xp += 1 (branch
\* self_wins).  Every agent's xp changes by the sum of the updates addressed
\* to it, and by nothing else.
C2_WrestleOutcome ==
    [][(pc = "wrestle" /\ do_wrestle') =>
          LET a == Acting
              b == other'
              aLoses == agents[a].strength < agents[b].strength
              dA == IF aLoses THEN 0 - 2 ELSE 1
              dB == IF aLoses THEN 1 ELSE 0 - 2
          IN  /\ branch' = IF aLoses THEN "self_loses" ELSE "self_wins"
              /\ \A k \in DOMAIN agents :
                    agents'[k].xp = agents[k].xp
                                    + (IF k = a THEN dA ELSE 0)
                                    + (IF k = b THEN dB ELSE 0)]_vars

\* The last agent of a tick did not hunt, wrestled a strictly stronger
\* distinct opponent and lost 2 xp, the opponent gaining 1.
C2_Witness ==
    /\ pc = "end"
    /\ do_wrestle
    /\ ~is_hunt_success
    /\ other # Acting
    /\ agents[Acting].strength < agents[other].strength
    /\ agents[Acting].xp = before[Acting].xp - 2
    /\ agents[other].xp = before[other].xp + 1

\* C3: the hunt phase with roll u: if u >= 0.8 (0.8 itself included) then
\* A.xp grows by exactly 2 and A.strength by exactly 3; if u < 0.8 neither
\* changes.
C3_HuntPhase ==
    [][pc = "hunt" =>
          LET a == Acting
          IN  IF roll' >= 80
              THEN /\ agents'[a].xp = agents[a].xp + 2
                   /\ agents'[a].strength = agents[a].strength + 3
              ELSE /\ agents'[a].xp = agents[a].xp
                   /\ agents'[a].strength = agents[a].strength]_vars

\* A hunt phase that drew exactly 0.8 has raised xp by 2 and strength by 3.
C3_Witness ==
    /\ pc = "wrestle"
    /\ roll = 80
    /\ agents[Acting].xp = before[Acting].xp + 2
    /\ agents[Acting].strength = before[Acting].strength + 3

\* C4: in a wrestle of A against a distinct B of equal strength, A is the
\* winner: A.xp grows by 1 and B.xp falls by 2.
C4_TieBreak ==
    [][(/\ pc = "wrestle"
        /\ do_wrestle'
        /\ other' # Acting
        /\ agents[Acting].strength = agents[other'].strength) =>
          /\ branch' = "self_wins"
          /\ agents'[Acting].xp = agents[Acting].xp + 1
          /\ agents'[other'].xp = agents[other'].xp - 2]_vars

\* The last agent of a tick wrestled a distinct opponent of equal strength,
\* and the opponent is 2 xp down.
C4_Witness ==
    /\ pc = "end"
    /\ do_wrestle
    /\ other # Acting
    /\ agents[Acting].strength = agents[other].strength
    /\ agents[other].xp = before[other].xp - 2
    /\ agents[Acting].xp = before[Acting].xp
                           + (IF is_hunt_success THEN 2 ELSE 0) + 1

\* C5: when the opponent pick returns the acting agent A itself, the wrestle
\* completes (control returns to the scheduler's loop), the branch taken is
\* self_wins, A.xp changes by exactly -1, and A.strength and every other
\* agent are unchanged.
C5_SelfContest ==
    [][(pc = "wrestle" /\ do_wrestle' /\ other' = Acting) =>
          /\ pc' \in {"hunt", "end"}
          /\ branch' = "self_wins"
          /\ agents'[Acting].xp = agents[Acting].xp - 1
          /\ agents'[Acting].strength = agents[Acting].strength
          /\ \A k \in DOMAIN agents : k # Acting => agents'[k] = agents[k]
          /\ DOMAIN agents' = DOMAIN agents]_vars

\* The last agent of a tick, of strength 9, did not hunt, picked itself, and
\* ended 1 xp down.
C5_Witness ==
    /\ pc = "end"
    /\ do_wrestle
    /\ ~is_hunt_success
    /\ other = Acting
    /\ agents[Acting].strength = 9
    /\ agents[Acting].xp = before[Acting].xp - 1

\* C6: for every population size n >= 1, in every reachable state the
\* population holds exactly n agents, their keys are exactly 0 .. n-1, each
\* key occurs once, and each agent keeps the key it was created with.
C6_PopulationStable ==
    num_agents >= 1 =>
        /\ Len(agents) = num_agents
        /\ {agents[i].unique_id : i \in DOMAIN agents} = 0..(num_agents - 1)
        /\ \A i, j \in DOMAIN agents :
              agents[i].unique_id = agents[j].unique_id => i = j
        /\ \A i \in DOMAIN agents : agents[i].unique_id = i - 1

\* Two ticks of a village of two are over, xp has moved, the keys have not.
C6_Witness ==
    /\ pc = "idle"
    /\ steps = 2
    /\ num_agents = 2
    /\ agents[1].xp # 1
    /\ agents[2].xp # 1
    /\ agents[1].unique_id = 0
    /\ agents[2].unique_id = 1

\* C7: right after Village(n), before any step, every agent has xp 1 and an
\* integer strength between 1 and 9.
C7_InitialState ==
    (steps = 0 /\ pc = "idle") =>
        \A i \in DOMAIN agents :
            /\ agents[i].xp = 1
            /\ agents[i].strength \in 1..9

\* A freshly built village of two with the strengths 9 and 1.
C7_Witness ==
    /\ steps = 0
    /\ pc = "idle"
    /\ num_agents = 2
    /\ agents[1].strength = 9
    /\ agents[2].strength = 1
    /\ agents[1].xp = 1
    /\ agents[2].xp = 1

\* C8: one activation of A changes at most A.xp, A.strength and the xp of the
\* picked opponent B: compared with the state in which the activation began,
\* when it ends every agent but A has its strength, every agent but A and B
\* has its xp, and the keys, the population and its size are what they were.
C8_ActivationFrame ==
    [][pc = "wrestle" =>
          LET a == Acting
              b == other'
          IN  /\ num_agents' = num_agents
              /\ DOMAIN agents' = DOMAIN before
              /\ \A k \in DOMAIN before :
                    /\ agents'[k].unique_id = before[k].unique_id
                    /\ k # a => agents'[k].strength = before[k].strength
                    /\ (k # a /\ k # b) => agents'[k].xp = before[k].xp]_vars

\* An activation with a successful hunt and a wrestle against a distinct
\* opponent is over: the opponent's xp moved, its strength did not.
C8_Witness ==
    /\ pc = "end"
    /\ is_hunt_success
    /\ do_wrestle
    /\ other # Acting
    /\ agents[Acting].strength # before[Acting].strength
    /\ agents[other].xp # before[other].xp
    /\ agents[other].strength = before[other].strength

\* C9: an activation of A whose hunt succeeds and whose wrestle roll fails
\* (roll <= 0.85) ends with A.xp two higher and A.strength three higher than
\* when it began, picks no opponent, and changes no other agent.
C9_HuntOnly ==
    [][(pc = "wrestle" /\ is_hunt_success /\ roll' <= 85) =>
          LET a == Acting
          IN  /\ agents'[a].xp = before[a].xp + 2
              /\ agents'[a].strength = before[a].strength + 3
              /\ other' = 0
              /\ \A k \in DOMAIN before : k # a => agents'[k] = before[k]
              /\ DOMAIN agents' = DOMAIN before]_vars

\* In a village of two, an agent that began with xp 1 and strength 5 hunted
\* with success, did not wrestle, and holds xp 3 and strength 8.
C9_Witness ==
    /\ pc = "end"
    /\ Len(agents) = 2
    /\ is_hunt_success
    /\ ~do_wrestle
    /\ before[Acting].xp = 1
    /\ before[Acting].strength = 5
    /\ agents[Acting].xp = 3
    /\ agents[Acting].strength = 8

\* C10: no step lowers any agent's strength, and every agent's strength is at
\* least 1 in every reachable state.
C10_StrengthNeverDecreases ==
    /\ [](\A i \in DOMAIN agents : agents[i].strength >= 1)
    /\ [][\A i \in DOMAIN agents :
             agents'[i].strength >= agents[i].strength]_vars

\* After two ticks an agent that started at strength 9 stands at 15.
C10_Witness ==
    /\ pc = "idle"
    /\ steps = 2
    /\ \E i \in DOMAIN agents : agents[i].strength = 15

\* C11: there is no snapshot isolation within a tick. A wrestle against an
\* opponent other than the acting agent that was already activated in the
\* running tick is decided by the strengths the two hold at that moment, the
\* opponent's earlier hunt gain included: the acting agent loses 2 xp and the
\* opponent gains 1 exactly when the acting agent's present strength is below
\* the opponent's present strength, and otherwise the opponent loses 2 and the
\* acting agent gains 1.
C11_NoSnapshotIsolation ==
    [][(pc = "wrestle" /\ do_wrestle' /\ other' # Acting
          /\ activated[agents[other'].unique_id] = 1) =>
          LET a == Acting
              b == other'
          IN  IF agents[a].strength < agents[b].strength
              THEN /\ branch' = "self_loses"
                   /\ agents'[a].xp = agents[a].xp - 2
                   /\ agents'[b].xp = agents[b].xp + 1
              ELSE /\ branch' = "self_wins"
                   /\ agents'[a].xp = agents[a].xp + 1
                   /\ agents'[b].xp = agents[b].xp - 2]_vars

\* The outcome differs from the one the strengths at the start of the tick
\* would give: the acting agent began the tick at least as strong as its
\* opponent and did not hunt, the opponent was activated first, gained 3
\* strength by its hunt, and the acting agent lost.
C11_Witness ==
    /\ pc = "end"
    /\ do_wrestle
    /\ ~is_hunt_success
    /\ other # Acting
    /\ tick_start[Acting].strength >= tick_start[other].strength
    /\ agents[other].strength = tick_start[other].strength + 3
    /\ agents[Acting].strength < agents[other].strength
    /\ branch = "self_loses"
    /\ agents[Acting].xp = before[Acting].xp - 2
    /\ agents[other].xp = before[other].xp + 1

\* C13: constructing the village with a negative n fails with an error and
\* leaves no village behind, so no state holds a village whose num_agents is
\* negative.
C13_NegativeSizeRejected == num_agents >= 0

\* C14: at any moment the read-out holds exactly one (xp, strength) pair for
\* each agent, in creation order: there are as many pairs as agents were
\* created, and pair i is the pair of the agent whose key is i - 1, whatever
\* order the running or the earlier ticks activated the agents in.
C14_ReadOutInCreationOrder ==
    [](/\ Len(ReadOut) = Cardinality(Range(num_agents))
       /\ \A i \in 1..Len(ReadOut) :
             /\ Cardinality({j \in DOMAIN agents :
                                agents[j].unique_id = i - 1}) = 1
             /\ ReadOut[i] = <<agents[AgentOf(i - 1)].xp,
                               agents[AgentOf(i - 1)].strength>>)

\* One tick has run and the second has activated key 1 before key 0, and the
\* read-out still lists key 0 first; the two pairs differ, so the order shows.
C14_Witness ==
    /\ pc = "end"
    /\ steps = 1
    /\ agent_keys = <<1, 0>>
    /\ Len(ReadOut) = 2
    /\ ReadOut[1] # ReadOut[2]
    /\ agents[1].unique_id = 0
    /\ ReadOut[1] = <<agents[1].xp, agents[1].strength>>

\* C15: in every wrestle between two distinct agents whose strengths differ,
\* the agent with the lower strength loses 2 xp and the agent with the higher
\* strength gains 1 xp, whichever of the two is the acting agent.
C15_LowerStrengthLoses ==
    [][(pc = "wrestle" /\ do_wrestle' /\ other' # Acting
          /\ agents[Acting].strength # agents[other'].strength) =>
          LET a == Acting
              b == other'
              lower == IF agents[a].strength < agents[b].strength THEN a ELSE b
              higher == IF lower = a THEN b ELSE a
          IN  /\ agents'[lower].xp = agents[lower].xp - 2
              /\ agents'[higher].xp = agents[higher].xp + 1]_vars

\* The acting agent was the stronger of the two: it gained 1 xp and the
\* weaker opponent it picked lost 2.
C15_Witness ==
    /\ pc = "end"
    /\ do_wrestle
    /\ other # Acting
    /\ agents[Acting].strength > agents[other].strength
    /\ agents[Acting].xp = before[Acting].xp + (IF is_hunt_success THEN 3 ELSE 1)
    /\ agents[other].xp = before[other].xp - 2

\* C16: a village built with n = 0 has an empty population, and every step on
\* it is a no-op: the population and the read-out stay empty, no agent is
\* activated, no roll is drawn and no opponent is picked.
C16_EmptyVillageNoOp ==
    num_agents = 0 =>
        /\ agents = <<>>
        /\ ReadOut = <<>>
        /\ pc \in {"idle", "end"}
        /\ DOMAIN activated = {}
        /\ calls = <<>>
        /\ roll = -1
        /\ ~do_wrestle
        /\ other = 0

\* Two steps have run to completion on the village of none.
C16_Witness ==
    /\ num_agents = 0
    /\ pc = "idle"
    /\ steps = 2
    /\ agents = <<>>

\* C17: a run of T ticks on n agents always terminates. Every step of the
\* run uses up exactly one of the finitely many steps that remain, a tick
\* reaches its end after exactly n activations (each agent once, each
\* activation one hunt phase followed by one wrestle phase), the run reaches
\* the state after its last Village.step call and stays there, and nothing
\* changes after that call has returned.
C17_Terminates ==
    /\ [](RemainingSteps >= 0)
    /\ [][RemainingSteps' = RemainingSteps - 1]_vars
    /\ [](pc = "end" =>
            /\ Cardinality(DOMAIN activated) = Len(agents)
            /\ \A k \in DOMAIN activated : activated[k] = 1
            /\ Len(agents) > 0 => idx = Len(agents))
    /\ [][~(pc = "idle" /\ steps = RunTicks)]_vars
    /\ <>[](pc = "idle" /\ steps = RunTicks)

\* A run of two ticks on two agents has ended: no step remains.
C17_Witness ==
    /\ pc = "idle"
    /\ Len(agents) = 2
    /\ steps = 2
    /\ RunTicks = 2
    /\ RemainingSteps = 0
    /\ \E i \in DOMAIN agents : agents[i].xp # 1

\* C18: within one activation the hunt is applied before the wrestle, and
\* the wrestle compares the acting agent's strength after that activation's
\* hunt gain. An acting agent whose successful hunt lifts its strength from
\* below a distinct opponent's to at least the opponent's wins the wrestle of
\* that activation: it ends with its hunt's 2 xp and the winner's 1 xp, and
\* the opponent loses 2 xp.
C18_HuntBeforeWrestle ==
    [][(pc = "wrestle" /\ is_hunt_success /\ do_wrestle' /\ other' # Acting
          /\ before[Acting].strength < before[other'].strength
          /\ before[Acting].strength + 3 >= before[other'].strength) =>
          LET a == Acting
              b == other'
          IN  /\ agents[a].strength = before[a].strength + 3
              /\ branch' = "self_wins"
              /\ agents'[a].xp = before[a].xp + 2 + 1
              /\ agents'[b].xp = before[b].xp - 2]_vars

\* The acting agent began its activation weaker than the opponent it went on
\* to pick, hunted with success, and won the wrestle.
C18_Witness ==
    /\ pc = "end"
    /\ is_hunt_success
    /\ do_wrestle
    /\ other # Acting
    /\ before[Acting].strength < before[other].strength
    /\ agents[Acting].strength >= agents[other].strength
    /\ branch = "self_wins"
    /\ agents[Acting].xp = before[Acting].xp + 3
    /\ agents[other].xp = before[other].xp - 2

\* C19: a wrestle roll v <= 0.85, the boundary included, picks no opponent
\* and leaves every agent's xp and strength as the hunt phase left them; a
\* wrestle takes place exactly when v > 0.85.
C19_WrestleThreshold ==
    [][pc = "wrestle" =>
          IF roll' <= 85
          THEN /\ ~do_wrestle'
               /\ other' = 0
               /\ branch' = "none"
               /\ agents' = agents
          ELSE /\ do_wrestle'
               /\ other' \in DOMAIN agents
               /\ branch' \in {"self_loses", "self_wins"}
               /\ agents' # agents]_vars

\* The wrestle roll was exactly 0.85: no wrestle, no opponent, and the agents
\* are as they were after the hunt phase, which had failed.
C19_Witness ==
    /\ pc = "end"
    /\ Len(agents) = 2
    /\ roll = 85
    /\ ~is_hunt_success
    /\ ~do_wrestle
    /\ other = 0
    /\ agents = before

\* C20: every activation makes exactly one hunt draw and then exactly one
\* wrestle draw, whether or not the hunt succeeded, followed by exactly one
\* opponent pick when the wrestle roll succeeded (v > 0.85) and by none
\* otherwise.
C20_DrawsPerActivation ==
    /\ pc = "wrestle" => calls = <<"uniform">>
    /\ ((pc = "end" /\ Len(agents) > 0) \/ (pc = "hunt" /\ idx > 1)) =>
          calls = IF roll > 85
                  THEN <<"uniform", "uniform", "choice">>
                  ELSE <<"uniform", "uniform">>

\* An activation whose hunt succeeded and whose wrestle roll failed has made
\* its two draws and no pick.
C20_Witness ==
    /\ pc = "end"
    /\ is_hunt_success
    /\ roll = 85
    /\ other = 0
    /\ calls = <<"uniform", "uniform">>

\* C21: the opponent pick is unconstrained over the whole population. In
\* every state in which an acting agent A is about to draw its wrestle roll,
\* a wrestle of A against B is a possible step for every agent B of the
\* population: A itself, the agents already activated in the running tick,
\* and the agents not yet activated.
C21_PickUnconstrained ==
    pc = "wrestle" =>
        \A b \in DOMAIN agents :
            ENABLED (other' = b /\ do_wrestle' = TRUE /\ Wrestle)

\* The last agent of a tick wrestled itself, in a village of two whose other
\* agent had already been activated.
C21_Witness ==
    /\ pc = "end"
    /\ Len(agents) = 2
    /\ do_wrestle
    /\ other = Acting
    /\ \E k \in DOMAIN activated : k # agent_keys[idx] /\ activated[k] = 1

\* C23: the activation order is chosen afresh in every tick. Whenever a tick
\* is about to begin, after whatever orders the earlier ticks used, every
\* permutation of the n keys is a possible activation order of that tick.
C23_FreshOrderEachTick ==
    (pc = "idle" /\ steps < RunTicks) =>
        \A p \in {q \in [1..Len(agents) -> 0..(Len(agents) - 1)] :
                    \A i, j \in 1..Len(agents) : q[i] = q[j] => i = j} :
            ENABLED (agent_keys' = p /\ StepBegin)

\* The second tick of a village of two runs in the order key 1, key 0, which
\* is not the creation order.
C23_Witness ==
    /\ steps = 1
    /\ pc = "wrestle"
    /\ Len(agents) = 2
    /\ agent_keys = <<1, 0>>
    /\ idx = 1
    /\ agents[2].xp # tick_start[2].xp

\* C22, as stated: negative xp is reached already by a single self-contest
\* starting from xp = 1, so an acting agent that holds xp 1 when it wrestles
\* itself ends that wrestle with negative xp.
C22_SingleSelfContestNegative ==
    [][(pc = "wrestle" /\ do_wrestle' /\ other' = Acting
          /\ agents[Acting].xp = 1) =>
          agents'[Acting].xp < 0]_vars

\* C22, amended: no floor is enforced on xp. Every agent whose xp a wrestle
\* lowers ends exactly 2 below where it stood when the opponent is another
\* agent and exactly 1 below in a self-contest, also when that takes it to 0
\* or below; a lost wrestle from xp 1 leaves xp -1, a self-contest from xp 1
\* leaves xp 0, and no other step lowers, clamps or resets any xp.
C22_NoXpFloor ==
    [][/\ (pc = "wrestle" /\ do_wrestle') =>
            \A i \in DOMAIN agents :
                agents'[i].xp < agents[i].xp =>
                    agents'[i].xp = agents[i].xp -
                                      (IF other' = Acting THEN 1 ELSE 2)
       /\ ~(pc = "wrestle" /\ do_wrestle') =>
            \A i \in DOMAIN agents : agents'[i].xp >= agents[i].xp]_vars

\* An agent that held xp 1 lost a wrestle against another agent and holds
\* xp -1.
C22_Witness ==
    /\ pc = "end"
    /\ do_wrestle
    /\ ~is_hunt_success
    /\ other # Acting
    /\ branch = "self_loses"
    /\ before[Acting].xp = 1
    /\ agents[Acting].xp = -1

\* C24: in a wrestle between two distinct agents whose products xp * strength
\* differ, the winner (the agent that gains 1 xp) is the one with the larger
\* product and the other loses 2 xp.
C24_WinnerHasLargerProduct ==
    [][(pc = "wrestle" /\ do_wrestle' /\ other' # Acting
          /\ agents[Acting].xp * agents[Acting].strength
               # agents[other'].xp * agents[other'].strength) =>
          LET a == Acting
              b == other'
              winner == IF agents[a].xp * agents[a].strength
                             > agents[b].xp * agents[b].strength
                        THEN a ELSE b
              loser == IF winner = a THEN b ELSE a
          IN  /\ agents'[winner].xp = agents[winner].xp + 1
              /\ agents'[loser].xp = agents[loser].xp - 2]_vars

\* C25: MCMC(K) is an accept/reject procedure. After each iteration the
\* proposal X_hat has been appended to the sample list if the acceptance test
\* f(X_hat)/f(X) > u passed, and has not been appended if the test failed.
C25_AcceptReject ==
    (mcmc.pc \in {"loop", "returned"} /\ mcmc.pos > 0) =>
        IF All(mcmc.test)
        THEN /\ mcmc.appended
             /\ mcmc.X_valSample[Len(mcmc.X_valSample)] = mcmc.X_hat
        ELSE ~mcmc.appended

\* C30: MCMC(K) runs exactly K iterations, the assignment i = i + 1 in the
\* body notwithstanding; every iteration proposes from the same fixed grid
\* X, so every entry of the list is the grid shifted by one offset in [0, 1);
\* the list holds one entry for each iteration made, and the returned list
\* has exactly K entries, for every K >= 0.
C30_ExactlyKEntries ==
    mcmc.pc \in {"loop", "returned"} =>
        /\ mcmc.pos <= mcmc.K
        /\ Len(mcmc.X_valSample) = mcmc.pos
        /\ mcmc.pc = "returned" =>
              /\ mcmc.pos = mcmc.K
              /\ Len(mcmc.X_valSample) = mcmc.K
        /\ \A n \in 1..Len(mcmc.X_valSample) :
              \E d \in 0..99 :
                  mcmc.X_valSample[n] =
                      [j \in 1..8 |-> 100 * (-10 + 5 * (j - 1)) + d]

\* MCMC(3) has returned three entries; its last iteration ran the assignment
\* i = i + 1 and its first two entries differ.
C30_Witness ==
    /\ mcmc.pc = "returned"
    /\ mcmc.K = 3
    /\ mcmc.i = 3
    /\ Len(mcmc.X_valSample) = 3
    /\ mcmc.X_valSample[1] # mcmc.X_valSample[2]

\* The sum of the entries of a sequence of numbers.
RECURSIVE SeqSum(_)
SeqSum(seq) == IF seq = <<>> THEN 0 ELSE seq[1] + SeqSum(Tail(seq))

\* C26: xp accounting. In every reachable state the sum of xp over all
\* agents equals the number of agents, plus 2 for every successful hunt so
\* far, minus 1 for every wrestle so far, whether the wrestle was against
\* another agent or against the acting agent itself.
C26_XpAccounting ==
    [](SeqSum([i \in DOMAIN agents |-> agents[i].xp]) =
          Len(agents) + 2 * SeqSum(ledger.hunts) - ledger.wrestles)

\* The second tick of a village of two ends; the run has seen at least one
\* successful hunt and two wrestles, the last of them a self-contest: the xp
\* sum is 2 + 2 * hunts - 2.
C26_Witness ==
    /\ pc = "end"
    /\ steps = 1
    /\ Len(agents) = 2
    /\ SeqSum(ledger.hunts) >= 1
    /\ ledger.wrestles = 2
    /\ do_wrestle
    /\ other = Acting
    /\ agents[1].xp + agents[2].xp = 2 * SeqSum(ledger.hunts)

\* C27: in every reachable state each agent's strength is its initial
\* strength plus 3 for each of its own successful hunts, however often it
\* was picked as an opponent, and an agent has at most one successful hunt
\* for each of its activations: after T completed ticks its strength is at
\* most its initial strength + 3 * T.
C27_StrengthFromOwnHunts ==
    \A i \in DOMAIN agents :
        /\ agents[i].strength = ledger.initial[i] + 3 * ledger.hunts[i]
        /\ ledger.hunts[i] >= 0
        /\ ledger.hunts[i] <= ledger.activations[i]
        /\ pc = "idle" => agents[i].strength <= ledger.initial[i] + 3 * steps

\* After two ticks an agent that hunted with success twice stands 6 above
\* its initial strength, and the other agent, which never hunted with success
\* and whose xp wrestles have changed, has the strength it started with.
C27_Witness ==
    /\ pc = "idle"
    /\ steps = 2
    /\ Len(agents) = 2
    /\ ledger.hunts[1] = 2
    /\ agents[1].strength = ledger.initial[1] + 6
    /\ ledger.hunts[2] = 0
    /\ agents[2].xp = 2
    /\ agents[2].strength = ledger.initial[2]

\* C28: at every moment of a run, in the middle of a tick too, the numbers
\* of Warrior.step calls any two agents have received so far differ by at
\* most 1, and whenever T calls of Village.step have returned every agent
\* has received exactly T.
C28_ActivationCountsBalanced ==
    [](/\ \A i, j \in DOMAIN agents :
             /\ ledger.activations[i] - ledger.activations[j] <= 1
             /\ ledger.activations[j] - ledger.activations[i] <= 1
       /\ pc = "idle" =>
             \A i \in DOMAIN agents : ledger.activations[i] = steps)

\* In the middle of the second tick of a village of two, one agent has been
\* activated twice and the other once.
C28_Witness ==
    /\ steps = 1
    /\ pc = "hunt"
    /\ idx = 2
    /\ Len(agents) = 2
    /\ \E i, j \in DOMAIN agents :
          ledger.activations[i] = 2 /\ ledger.activations[j] = 1

\* C29: in every wrestle between two distinct agents the participant that
\* loses 2 xp is never strictly stronger, at the moment of the comparison,
\* than the participant that gains 1 xp, and a participant strictly stronger
\* than the other does not lose xp.
C29_StrongerNeverLoses ==
    [][(pc = "wrestle" /\ do_wrestle' /\ other' # Acting) =>
          \A l, w \in {Acting, other'} :
              l # w =>
                /\ (agents'[l].xp = agents[l].xp - 2
                      /\ agents'[w].xp = agents[w].xp + 1) =>
                        agents[l].strength <= agents[w].strength
                /\ agents[l].strength > agents[w].strength =>
                        agents'[l].xp >= agents[l].xp]_vars

\* The acting agent hunted with success, was still weaker than the opponent
\* it picked, and lost: the stronger opponent gained 1 xp.
C29_Witness ==
    /\ pc = "end"
    /\ do_wrestle
    /\ is_hunt_success
    /\ other # Acting
    /\ agents[other].strength > agents[Acting].strength
    /\ agents[other].xp = before[other].xp + 1
    /\ agents[Acting].xp = before[Acting].xp

\* C31: over one complete tick of a population of n >= 1 the net change of
\* any single agent's xp lies between -2 * n and n + 2 inclusive. An
\* activation changes the acting agent's xp by between -2 and +3 and every
\* other agent's xp by -2, 0 or +1, and when the last activation of the tick
\* is over every agent's xp stands between -2 * n and n + 2 away from where
\* it stood when the tick began.
C31_TickXpChangeBounded ==
    [][pc = "wrestle" =>
          LET n == Len(agents)
          IN  /\ agents'[Acting].xp - before[Acting].xp \in (-2)..3
              /\ \A i \in DOMAIN agents :
                    i # Acting =>
                        agents'[i].xp - before[i].xp \in {-2, 0, 1}
              /\ pc' = "end" =>
                    \A i \in DOMAIN agents :
                        /\ agents'[i].xp - tick_start[i].xp >= -2 * n
                        /\ agents'[i].xp - tick_start[i].xp <= n + 2]_vars

\* Both ends are met in one tick of a village of two: one agent gained
\* 4 = n + 2 xp and the other lost 4 = 2 * n.
C31_Witness ==
    /\ pc = "end"
    /\ Len(agents) = 2
    /\ \E i, j \in DOMAIN agents :
          /\ agents[i].xp - tick_start[i].xp = 4
          /\ agents[j].xp - tick_start[j].xp = -4

====
